---- MODULE Spec2Model ----
(***************************************************************************)
(* Proposal workflow of EB-Traker: the Firestore-backed handler of         *)
(* src/api/proposals.js (lines 748-1598: createProposal, getProposals,     *)
(* updateProposal, deleteProposal, checkProposalAccess,                    *)
(* createWorkflowNotifications) together with helpers.logActivity of       *)
(* src/firebase-config.js.                                                 *)
(*                                                                         *)
(* A document is a record; a missing document is an id outside the         *)
(* collection's domain.  A nullable field holds <<>> for null and <<v>>    *)
(* for a value v.  Timestamps (createdAt, updatedAt, ...At) and the        *)
(* workflow.* progress map are left out of the documents.  Requests carry  *)
(* no optional list filters (status, clientCompany, search, ...), and the  *)
(* default limit of 50 is above MaxProposals.                              *)
(***************************************************************************)
EXTENDS Integers, Sequences, FiniteSets, Bags, TLC

\* ------------------------------------------------------------------ bounds
MaxProposals == 2
MaxWrites == 5
MaxActFails == 1
MaxConcProposals == 1
MaxConcWrites == 6
MaxInflight == 2
MaxNotifWrites == 2
MaxAddressed == 2
MaxRestWrites == 3

\* The files endpoints: MaxFiles file documents, which is also the most one
\* upload carries, MaxFileProposals proposals and MaxFileWrites proposal
\* writes.
MaxFiles == 2
MaxFileProposals == 1
MaxFileWrites == 4

\* rateLimit: arguments up to MaxRequestsArg requests per MaxWindowMs
\* milliseconds, the clock up to MaxNow, MaxServed requests decided.
MaxRequestsArg == 2
MaxWindowMs == 3
MaxNow == 4
MaxServed == 5

\* --------------------------------------------------------------- constants
Null == <<>>
Some(v) == <<v>>
NoId == 0
NoAction == ""

ProposalIds == 1..MaxProposals

\* The users collection (read by verifyToken and by the notification fan-out).
users ==
  [b1 |-> [role |-> "bdm",       name |-> "Bea",  status |-> "active"],
   b2 |-> [role |-> "bdm",       name |-> "Bob",  status |-> "active"],
   e1 |-> [role |-> "estimator", name |-> "Eve",  status |-> "active"],
   c1 |-> [role |-> "coo",       name |-> "Cleo", status |-> "active"],
   d1 |-> [role |-> "director",  name |-> "Dan",  status |-> "active"]]

Uids == DOMAIN users

\* req.user as verifyToken builds it from the users document.
ReqUser(uid) ==
  [uid |-> uid, name |-> users[uid].name, role |-> users[uid].role]

StatusEnum ==
  {"pending_estimation", "pending_pricing", "pending_director_approval",
   "approved", "rejected", "revision_required", "submitted_to_client",
   "won", "lost"}

Actions ==
  {"add_estimation", "set_pricing", "director_approve", "director_reject",
   "submit_to_client"}

\* Action names a PUT may carry: the five known ones, an unknown one, none.
ActionInputs == Actions \cup {"bogus", NoAction}

\* Ids a request may carry: stored or not yet stored ones, or none.
IdInputs == ProposalIds \cup {NoId}

\* Request payloads of PUT: absent, or an object.
\* JSON scalars of a payload.
JNum(n) == [t |-> "number", v |-> n]
JStr(x) == [t |-> "string", v |-> x]

DataInputs ==
  {Null,
   Some([totalHours |-> JNum(10), quoteValue |-> JNum(1000), method |-> ""])}

\* parseFloat: a number is itself, a numeric string its number, anything
\* else NaN (here <<>>).
NaN == <<>>
ParseFloat(j) ==
  IF j.t = "number" THEN <<j.v>>
  ELSE IF j.v = "10" THEN <<10>>
  ELSE IF j.v = "1000" THEN <<1000>>
  ELSE NaN

\* parseFloat(x) || 0: NaN and 0 are falsy.
ParseFloatOr0(j) == IF ParseFloat(j) = NaN THEN 0 ELSE ParseFloat(j)[1]

\* Request bodies of POST.
Bodies ==
  {[projectName |-> "X",   clientCompany |-> "Y", projectType |-> "Commercial",
    scopeOfWork |-> "Z", priority |-> ""],
   [projectName |-> " X ", clientCompany |-> "Y", projectType |-> "Commercial",
    scopeOfWork |-> "Z", priority |-> ""],
   [projectName |-> "",    clientCompany |-> "Y", projectType |-> "Commercial",
    scopeOfWork |-> "Z", priority |-> ""]}

\* String.prototype.trim on the strings the bodies carry.
Trim(s) == IF s = " X " THEN "X" ELSE s

\* a || b for strings: the empty string is falsy.
OrElse(a, b) == IF a = "" THEN b ELSE a

VARIABLES
  proposals,      \* collection 'proposals': id -> document
  activities,     \* collection 'activities': bag of documents
  notifications,  \* collection 'notifications': bag of documents
  writes,         \* number of proposal writes so far
  inflight,       \* bag of PUT/DELETE requests between their read and write
  accepted,       \* id -> set of actions whose proposal write was performed
  resp,           \* the request just answered and its answer, until sent
  files,          \* collection 'files': id -> document
  limiter,        \* the arguments the rateLimit middleware was built with
  requests,       \* rateLimit's Map: uid -> timestamps kept for the user
  now,            \* Date.now()
  passed,         \* uid -> timestamps of the requests handed to next()
  verdict         \* the request rateLimit decided last and what it decided

\* What the rate limiter holds, and what the proposals and notifications
\* handlers never touch.
rateVars == <<limiter, requests, now, passed, verdict>>
elsewhere == <<files, rateVars>>

vars == <<proposals, activities, notifications, writes, inflight, accepted, resp,
          files, limiter, requests, now, passed, verdict>>

NoResp == [method |-> "", actor |-> "", id |-> NoId, action |-> NoAction,
           code |-> 0, ids |-> {}]

Response(method, uid, id, action, code, ids) ==
  [method |-> method, actor |-> uid, id |-> id, action |-> action,
   code |-> code, ids |-> ids]

\* Nothing decided yet by the rate limiter.
NoVerdict == [n |-> 0, uid |-> "", next |-> FALSE]

\* Firestore DocumentReference.update: the named fields are replaced, the
\* others are kept.
Merge(doc, upd) ==
  [f \in (DOMAIN doc) \cup (DOMAIN upd) |->
     IF f \in DOMAIN upd THEN upd[f] ELSE doc[f]]

\* new Date().toISOString() when a document is created: the time is counted
\* in documents created so far.
Clock == Cardinality(DOMAIN proposals)

\* value || []
OrEmpty(field) == IF field = Null THEN {} ELSE field[1]

\* doc.data().<field>: undefined (Null) when the document has no such field.
Field(doc, f) == IF f \in DOMAIN doc THEN Some(doc[f]) ELSE Null

Init ==
  /\ proposals = <<>>
  /\ activities = EmptyBag
  /\ notifications = EmptyBag
  /\ writes = 0
  /\ inflight = EmptyBag
  /\ accepted = <<>>
  /\ resp = NoResp
  /\ files = <<>>
  /\ limiter = [maxRequests |-> 100, windowMs |-> 60000]
  /\ requests = <<>>
  /\ now = 0
  /\ passed = <<>>
  /\ verdict = NoVerdict

\* ------------------------------------------------------------ side effects

\* logActivity as it would be if the add were dropped.
logActivityLost(acts, activityData, fails) == acts

\* helpers.logActivity: one document added to 'activities'; a failed add
\* throws to the caller and leaves the collection as it was.
logActivity(acts, activityData, fails) ==
  IF fails THEN acts ELSE acts (+) SetToBag({activityData})

ActivityData(type, id, user) ==
  [type |-> type, proposalId |-> id, performedBy |-> user.uid,
   performedByName |-> user.name, performedByRole |-> user.role]

\* The status -> template table of createWorkflowNotifications.
NotifiedStatuses ==
  {"pending_estimation", "pending_pricing", "pending_director_approval",
   "approved"}

TargetRole(toStatus) ==
  CASE toStatus = "pending_estimation" -> "estimator"
    [] toStatus = "pending_pricing" -> "coo"
    [] toStatus = "pending_director_approval" -> "director"
    [] toStatus = "approved" -> "bdm"

\* targetUsers as it would be if targetUserId were ignored: the active users
\* of the role for every status of the table.
TargetUsersByRole(toStatus, proposalData) ==
  IF toStatus \notin NotifiedStatuses THEN {}
  ELSE {u \in Uids : users[u].role = TargetRole(toStatus)
                     /\ users[u].status = "active"}

\* targetUsers: the creator for 'approved' (where the document names one),
\* else the active users of the role.
TargetUsers(toStatus, proposalData) ==
  IF toStatus \notin NotifiedStatuses THEN {}
  ELSE IF toStatus = "approved" /\ "createdBy" \in DOMAIN proposalData
  THEN {proposalData.createdBy}
  ELSE {u \in Uids : users[u].role = TargetRole(toStatus)
                     /\ users[u].status = "active"}

createWorkflowNotifications(notifs, proposalId, fromStatus, toStatus, proposalData) ==
  notifs (+) SetToBag(
    {[recipientId |-> u, type |-> "workflow_progression",
      proposalId |-> proposalId, read |-> FALSE,
      fromStatus |-> fromStatus, toStatus |-> toStatus]
       : u \in TargetUsers(toStatus, proposalData)})

\* ---------------------------------------------------------- createProposal
RequiredMissing(body) ==
  \/ body.projectName = ""
  \/ body.clientCompany = ""
  \/ body.projectType = ""
  \/ body.scopeOfWork = ""

ProposalData(proposalId, user, body) ==
  [id |-> proposalId,
   projectName |-> Trim(body.projectName),
   projectType |-> body.projectType,
   clientCompany |-> Trim(body.clientCompany),
   scopeOfWork |-> Trim(body.scopeOfWork),
   priority |-> OrElse(body.priority, "Medium"),
   status |-> "pending_estimation",
   createdBy |-> user.uid,
   createdByName |-> user.name,
   createdAt |-> Clock,
   estimation |-> Null,
   pricing |-> Null,
   directorApproval |-> Null,
   clientSubmission |-> Null,
   version |-> 1,
   changeLog |-> <<[action |-> "created", performedBy |-> user.uid]>>]

\* uuidv4(): an id no stored document has.
FreshIds == ProposalIds \ DOMAIN proposals
NewId == CHOOSE i \in FreshIds : \A j \in FreshIds : i <= j

Accept(id, action) ==
  IF id \in DOMAIN accepted
  THEN [accepted EXCEPT ![id] = @ \cup {action}]
  ELSE accepted @@ (id :> {action})

CreateProposal(uid, body, actFail) ==
  LET user == ReqUser(uid) IN
  /\ resp = NoResp
  /\ UNCHANGED elsewhere
  /\ UNCHANGED inflight
  /\ IF user.role # "bdm"
     THEN /\ resp' = Response("POST", uid, NoId, NoAction, 403, {})
          /\ UNCHANGED <<proposals, activities, notifications, writes, accepted>>
     ELSE IF RequiredMissing(body)
     THEN /\ resp' = Response("POST", uid, NoId, NoAction, 400, {})
          /\ UNCHANGED <<proposals, activities, notifications, writes, accepted>>
     ELSE /\ FreshIds # {}
          /\ LET proposalId == NewId
                 proposalData == ProposalData(proposalId, user, body)
             IN /\ proposals' = proposals @@ (proposalId :> proposalData)
                /\ writes' = writes + 1
                /\ accepted' = Accept(proposalId, "create")
                /\ activities' = logActivity(activities,
                      ActivityData("proposal_created", proposalId, user), actFail)
                /\ IF actFail
                   THEN /\ UNCHANGED notifications
                        /\ resp' = Response("POST", uid, proposalId, NoAction, 500, {})
                   ELSE /\ notifications' = createWorkflowNotifications(
                              notifications, proposalId, Null,
                              "pending_estimation", proposalData)
                        /\ resp' = Response("POST", uid, proposalId, NoAction, 201, {proposalId})


\* ---------------------------------------------------------- updateProposal
\* Each case of the switch yields the answer it returns early with, or 200
\* and the updateData it leaves for proposalRef.update.  A missing payload
\* makes the first read of data.<field> throw, which the handler's catch
\* answers with 500.
Reject(code) == [code |-> code, upd |-> <<>>]
Proceed(updateData) == [code |-> 200, upd |-> updateData]

\* The changeLog as it would be if each update started a new array.
PushLogFresh(proposal, action, user) ==
  <<[action |-> action, performedBy |-> user.uid]>>

\* proposal.version || 1
VersionOr1(proposal) ==
  IF "version" \in DOMAIN proposal THEN proposal.version ELSE 1

\* changeLog = proposal.changeLog || []; changeLog.push(entry)
PushLog(proposal, action, user) ==
  Append(proposal.changeLog, [action |-> action, performedBy |-> user.uid])

CaseAddEstimation(proposal, user, data, updateData) ==
  IF user.role # "estimator" THEN Reject(403)
  ELSE IF proposal.status # "pending_estimation" THEN Reject(400)
  ELSE IF data = Null THEN Reject(500)
  ELSE Proceed(Merge(updateData,
         [status |-> "pending_pricing",
          estimation |-> Some([totalHours |-> ParseFloatOr0(data[1].totalHours),
                               estimatedBy |-> user.uid,
                               estimatedByName |-> user.name]),
          changeLog |-> PushLog(proposal, "estimation_completed", user)]))

\* set_pricing as it would be without its role check.
CaseSetPricingAnyRole(proposal, user, data, updateData) ==
  IF proposal.status # "pending_pricing" THEN Reject(400)
  ELSE IF data = Null THEN Reject(500)
  ELSE Proceed(Merge(updateData,
         [status |-> "pending_director_approval",
          pricing |-> Some([quoteValue |-> ParseFloat(data[1].quoteValue),
                            pricedBy |-> user.uid,
                            pricedByName |-> user.name]),
          changeLog |-> PushLog(proposal, "pricing_set", user)]))

CaseSetPricing(proposal, user, data, updateData) ==
  IF user.role # "coo" THEN Reject(403)
  ELSE IF proposal.status # "pending_pricing" THEN Reject(400)
  ELSE IF data = Null THEN Reject(500)
  ELSE Proceed(Merge(updateData,
         [status |-> "pending_director_approval",
          pricing |-> Some([quoteValue |-> ParseFloat(data[1].quoteValue),
                            pricedBy |-> user.uid,
                            pricedByName |-> user.name]),
          changeLog |-> PushLog(proposal, "pricing_set", user)]))

CaseDirectorApprove(proposal, user, data, updateData) ==
  IF user.role # "director" THEN Reject(403)
  ELSE IF proposal.status # "pending_director_approval" THEN Reject(400)
  ELSE IF data = Null THEN Reject(500)
  ELSE Proceed(Merge(updateData,
         [status |-> "approved",
          directorApproval |-> Some([approved |-> TRUE,
                                     by |-> user.uid]),
          changeLog |-> PushLog(proposal, "director_approved", user)]))

\* director_reject as it would be if it sent the proposal back to pricing
\* with the pricing cleared.
CaseDirectorRejectResetsPricing(proposal, user, data, updateData) ==
  IF user.role # "director" THEN Reject(403)
  ELSE IF data = Null THEN Reject(500)
  ELSE Proceed(Merge(updateData,
         [status |-> "pending_pricing",
          pricing |-> Null,
          directorApproval |-> Some([approved |-> FALSE, by |-> user.uid]),
          changeLog |-> PushLog(proposal, "director_rejected", user)]))

\* The only check of this case is the role.
CaseDirectorReject(proposal, user, data, updateData) ==
  IF user.role # "director" THEN Reject(403)
  ELSE IF data = Null THEN Reject(500)
  ELSE Proceed(Merge(updateData,
         [status |-> "rejected",
          directorApproval |-> Some([approved |-> FALSE,
                                     by |-> user.uid]),
          changeLog |-> PushLog(proposal, "director_rejected", user)]))

\* submit_to_client as it would be without its status check.
CaseSubmitToClientAnyStatus(proposal, user, data, updateData) ==
  IF user.role # "bdm" THEN Reject(403)
  ELSE IF data = Null THEN Reject(500)
  ELSE Proceed(Merge(updateData,
         [status |-> "submitted_to_client",
          clientSubmission |-> Some([submittedBy |-> user.uid,
                                     submissionMethod |-> OrElse(data[1].method, "email")]),
          changeLog |-> PushLog(proposal, "submitted_to_client", user)]))

CaseSubmitToClient(proposal, user, data, updateData) ==
  IF user.role # "bdm" THEN Reject(403)
  ELSE IF proposal.status # "approved" THEN Reject(400)
  ELSE IF data = Null THEN Reject(500)
  ELSE Proceed(Merge(updateData,
         [status |-> "submitted_to_client",
          clientSubmission |-> Some([submittedBy |-> user.uid,
                                     submissionMethod |-> OrElse(data[1].method, "email")]),
          changeLog |-> PushLog(proposal, "submitted_to_client", user)]))

\* The switch on action, on the document as it was read.
UpdateSwitch(proposal, user, action, data) ==
  LET updateData == [version |-> VersionOr1(proposal) + 1] IN
  CASE action = "add_estimation" -> CaseAddEstimation(proposal, user, data, updateData)
    [] action = "set_pricing" -> CaseSetPricing(proposal, user, data, updateData)
    [] action = "director_approve" -> CaseDirectorApprove(proposal, user, data, updateData)
    [] action = "director_reject" -> CaseDirectorReject(proposal, user, data, updateData)
    [] action = "submit_to_client" -> CaseSubmitToClient(proposal, user, data, updateData)
    [] OTHER -> Reject(400)

\* The answer given before the document is used: missing id or action,
\* unknown document; 0 when the request goes on to the switch.
UpdateEarly(id, action) ==
  IF id = NoId \/ action = NoAction THEN 400
  ELSE IF id \notin DOMAIN proposals THEN 404
  ELSE 0

\* The write as it would be with the version used as a concurrency token:
\* a request whose document changed since it was read is answered 409.
UpdateCommitVersioned(uid, id, action, proposal, updateData, actFail) ==
  LET user == ReqUser(uid) IN
  IF proposals[id].version # proposal.version
  THEN /\ resp' = Response("PUT", uid, id, action, 409, {})
       /\ UNCHANGED <<proposals, activities, notifications, writes, accepted>>
  ELSE /\ proposals' = [proposals EXCEPT ![id] = Merge(@, updateData)]
       /\ writes' = writes + 1
       /\ accepted' = Accept(id, action)
       /\ activities' = logActivity(activities,
             ActivityData("proposal_" \o action, id, user), actFail)
       /\ IF actFail
          THEN /\ UNCHANGED notifications
               /\ resp' = Response("PUT", uid, id, action, 500, {})
          ELSE /\ notifications' =
                    IF updateData.status # proposal.status
                    THEN createWorkflowNotifications(notifications, id,
                            Some(proposal.status), updateData.status, proposal)
                    ELSE notifications
               /\ resp' = Response("PUT", uid, id, action, 200, {id})

\* proposalRef.update, logActivity, createWorkflowNotifications and the
\* answer, for the document read (proposal) and the updateData built from it.
UpdateCommit(uid, id, action, proposal, updateData, actFail) ==
  LET user == ReqUser(uid) IN
  /\ proposals' = [proposals EXCEPT ![id] = Merge(@, updateData)]
  /\ writes' = writes + 1
  /\ accepted' = Accept(id, action)
  /\ activities' = logActivity(activities,
        ActivityData("proposal_" \o action, id, user), actFail)
  /\ IF actFail
     THEN /\ UNCHANGED notifications
          /\ resp' = Response("PUT", uid, id, action, 500, {})
     ELSE /\ notifications' =
               IF updateData.status # proposal.status
               THEN createWorkflowNotifications(notifications, id,
                       Some(proposal.status), updateData.status, proposal)
               ELSE notifications
          /\ resp' = Response("PUT", uid, id, action, 200, {id})

\* The handler as it would be if a failed logActivity undid the update.
UpdateProposalRollback(uid, id, action, data, actFail) ==
  /\ resp = NoResp
  /\ UNCHANGED elsewhere
  /\ UNCHANGED inflight
  /\ IF UpdateEarly(id, action) # 0
     THEN /\ resp' = Response("PUT", uid, id, action, UpdateEarly(id, action), {})
          /\ UNCHANGED <<proposals, activities, notifications, writes, accepted>>
     ELSE LET proposal == proposals[id]
              out == UpdateSwitch(proposal, ReqUser(uid), action, data)
          IN IF out.code # 200
             THEN /\ resp' = Response("PUT", uid, id, action, out.code, {})
                  /\ UNCHANGED <<proposals, activities, notifications, writes, accepted>>
             ELSE IF actFail
             THEN /\ resp' = Response("PUT", uid, id, action, 500, {})
                  /\ writes' = writes + 1
                  /\ accepted' = Accept(id, action)
                  /\ UNCHANGED <<proposals, activities, notifications>>
             ELSE UpdateCommit(uid, id, action, proposal, out.upd, actFail)

\* A PUT handled with nothing else in between.
UpdateProposal(uid, id, action, data, actFail) ==
  /\ resp = NoResp
  /\ UNCHANGED elsewhere
  /\ UNCHANGED inflight
  /\ IF UpdateEarly(id, action) # 0
     THEN /\ resp' = Response("PUT", uid, id, action, UpdateEarly(id, action), {})
          /\ UNCHANGED <<proposals, activities, notifications, writes, accepted>>
     ELSE LET proposal == proposals[id]
              out == UpdateSwitch(proposal, ReqUser(uid), action, data)
          IN IF out.code # 200
             THEN /\ resp' = Response("PUT", uid, id, action, out.code, {})
                  /\ UNCHANGED <<proposals, activities, notifications, writes, accepted>>
             ELSE UpdateCommit(uid, id, action, proposal, out.upd, actFail)


\* ------------------------------------------------------------ getProposals
\* checkProposalAccess as it would be if a bdm were let in like a director.
checkProposalAccessAnyBdm(proposal, role, uid) ==
  CASE role = "bdm" -> TRUE
    [] role = "estimator" -> proposal.status = "pending_estimation"
    [] role = "coo" -> proposal.status \in
          {"pending_pricing", "pending_director_approval", "approved"}
    [] role = "director" -> TRUE
    [] OTHER -> FALSE

checkProposalAccess(proposal, role, uid) ==
  CASE role = "bdm" -> proposal.createdBy = uid
    [] role = "estimator" -> proposal.status = "pending_estimation"
    [] role = "coo" -> proposal.status \in
          {"pending_pricing", "pending_director_approval", "approved"}
    [] role = "director" -> TRUE
    [] OTHER -> FALSE

\* The where clause as it would be if the coo's list used the statuses of
\* checkProposalAccess.
RoleFilterCooWide(proposal, role, uid) ==
  CASE role = "bdm" -> proposal.createdBy = uid
    [] role = "estimator" -> proposal.status \in {"pending_estimation"}
    [] role = "coo" -> proposal.status \in
          {"pending_pricing", "pending_director_approval", "approved"}
    [] role = "director" -> TRUE
    [] OTHER -> FALSE

\* The role-based where clause of the list query.
RoleFilter(proposal, role, uid) ==
  CASE role = "bdm" -> proposal.createdBy = uid
    [] role = "estimator" -> proposal.status \in {"pending_estimation"}
    [] role = "coo" -> proposal.status \in {"pending_pricing"}
    [] role = "director" -> TRUE
    [] OTHER -> FALSE

KnownRoles == {"bdm", "estimator", "coo", "director"}

\* resp.ids holds the ids of the documents the answer carries.
GetProposals(uid, id) ==
  LET user == ReqUser(uid) IN
  /\ resp = NoResp
  /\ UNCHANGED elsewhere
  /\ UNCHANGED <<proposals, activities, notifications, writes, inflight, accepted>>
  /\ IF id # NoId
     THEN IF id \notin DOMAIN proposals
          THEN resp' = Response("GET", uid, id, NoAction, 404, {})
          ELSE IF ~checkProposalAccess(proposals[id], user.role, uid)
          THEN resp' = Response("GET", uid, id, NoAction, 403, {})
          ELSE resp' = Response("GET", uid, id, NoAction, 200, {id})
     ELSE IF user.role \notin KnownRoles
          THEN resp' = Response("GET", uid, id, NoAction, 403, {})
          ELSE resp' = Response("GET", uid, id, NoAction, 200,
                 {i \in DOMAIN proposals : RoleFilter(proposals[i], user.role, uid)})

\* ---------------------------------------------------------- deleteProposal
\* The checks as they would be without the test of the status.
DeleteCheckOwnerOnly(proposal, user) ==
  IF Field(proposal, "createdBy") # Some(user.uid) /\ user.role # "director" THEN 403
  ELSE 200

\* The answer of the checks made on the document read; 200 when the handler
\* goes on to the soft delete.
DeleteCheck(proposal, user) ==
  IF Field(proposal, "createdBy") # Some(user.uid) /\ user.role # "director" THEN 403
  ELSE IF proposal.status # "pending_estimation" /\ user.role # "director" THEN 400
  ELSE 200

DeleteEarly(id) ==
  IF id = NoId THEN 400
  ELSE IF id \notin DOMAIN proposals THEN 404
  ELSE 0

\* The soft delete as it would be if it also put the deleting user in the
\* creator's place.
DeleteCommitTakesOver(uid, id, actFail) ==
  LET user == ReqUser(uid) IN
  /\ proposals' = [proposals EXCEPT ![id] = Merge(@,
        [status |-> "deleted", createdByName |-> user.name,
         deletedBy |-> user.uid, deletedByName |-> user.name])]
  /\ writes' = writes + 1
  /\ accepted' = Accept(id, "delete")
  /\ activities' = logActivity(activities,
        ActivityData("proposal_deleted", id, user), actFail)
  /\ UNCHANGED notifications
  /\ resp' = Response("DELETE", uid, id, NoAction, IF actFail THEN 500 ELSE 200, {})

\* The soft delete, the activity record and the answer.
DeleteCommit(uid, id, actFail) ==
  LET user == ReqUser(uid) IN
  /\ proposals' = [proposals EXCEPT ![id] = Merge(@,
        [status |-> "deleted",
         deletedBy |-> user.uid, deletedByName |-> user.name])]
  /\ writes' = writes + 1
  /\ accepted' = Accept(id, "delete")
  /\ activities' = logActivity(activities,
        ActivityData("proposal_deleted", id, user), actFail)
  /\ UNCHANGED notifications
  /\ resp' = Response("DELETE", uid, id, NoAction, IF actFail THEN 500 ELSE 200, {})

\* A DELETE handled with nothing else in between.
DeleteProposal(uid, id, actFail) ==
  /\ resp = NoResp
  /\ UNCHANGED elsewhere
  /\ UNCHANGED inflight
  /\ IF DeleteEarly(id) # 0
     THEN /\ resp' = Response("DELETE", uid, id, NoAction, DeleteEarly(id), {})
          /\ UNCHANGED <<proposals, activities, notifications, writes, accepted>>
     ELSE IF DeleteCheck(proposals[id], ReqUser(uid)) # 200
     THEN /\ resp' = Response("DELETE", uid, id, NoAction,
                              DeleteCheck(proposals[id], ReqUser(uid)), {})
          /\ UNCHANGED <<proposals, activities, notifications, writes, accepted>>
     ELSE DeleteCommit(uid, id, actFail)

\* ------------------------------------------------- PUT /notifications
\* The check as it would be if every role, bdm included, were matched on
\* recipientRole.
NotificationAccessByRole(notificationData, user) ==
  Field(notificationData, "recipientRole") = Some(user.role)

\* 'Check if user can access this notification': a bdm by recipientUid, every
\* other role by recipientRole.
NotificationAccess(notificationData, user) ==
  IF user.role = "bdm"
  THEN Field(notificationData, "recipientUid") = Some(user.uid)
  ELSE Field(notificationData, "recipientRole") = Some(user.role)

\* The documents an id of the query can designate: none, or one stored one.
NotificationDocs == {{}} \cup {{n} : n \in BagToSet(notifications)}

\* Mark notification as read.  hasId: the query carries an id; docs: the
\* document with that id, if there is one.  readAt is left out.
PutNotification(uid, hasId, docs) ==
  LET user == ReqUser(uid) IN
  /\ resp = NoResp
  /\ UNCHANGED elsewhere
  /\ UNCHANGED <<proposals, activities, writes, inflight, accepted>>
  /\ IF ~hasId
     THEN /\ resp' = Response("PUT /notifications", uid, NoId, NoAction, 400, {})
          /\ UNCHANGED notifications
     ELSE IF docs = {}
     THEN /\ resp' = Response("PUT /notifications", uid, NoId, NoAction, 404, {})
          /\ UNCHANGED notifications
     ELSE LET notificationData == CHOOSE n \in docs : TRUE IN
          IF ~NotificationAccess(notificationData, user)
          THEN /\ resp' = Response("PUT /notifications", uid, NoId, NoAction, 403, {})
               /\ UNCHANGED notifications
          ELSE /\ notifications' = (notifications (-) SetToBag({notificationData}))
                    (+) SetToBag({Merge(notificationData, [isRead |-> TRUE])})
               /\ resp' = Response("PUT /notifications", uid, NoId, NoAction, 200, {})

\* The addressed notifications this endpoint serves are written by code that
\* is not part of the sources; they are created as the specification has
\* them: for a proposal, addressed to a role or to a user, with isRead false.
AddressInputs ==
  {[recipientRole |-> r] : r \in {"bdm", "coo"}}
    \cup {[recipientUid |-> u] : u \in {"b1", "d1"}}

Notify(proposalId, address) ==
  /\ resp = NoResp
  /\ UNCHANGED elsewhere
  /\ proposalId \in DOMAIN proposals
  /\ notifications' = notifications (+) SetToBag(
        {Merge([proposalId |-> proposalId, isRead |-> FALSE], address)})
  /\ UNCHANGED <<proposals, activities, writes, inflight, accepted, resp>>

\* res.json: the answer leaves the handler.
Deliver ==
  /\ resp # NoResp
  /\ resp' = NoResp
  /\ UNCHANGED <<proposals, activities, notifications, writes, inflight, accepted>>
  /\ UNCHANGED elsewhere

\* ------------------------------------------------- requests one at a time
\* The runs explored make at most MaxWrites proposal writes.
Budget == writes' <= MaxWrites

\* Every activity write succeeds.
Next ==
  \/ Deliver
  \/ \E uid \in Uids, body \in Bodies :
       CreateProposal(uid, body, FALSE) /\ Budget
  \/ \E uid \in Uids, id \in IdInputs : GetProposals(uid, id)
  \/ \E uid \in Uids, id \in IdInputs, action \in ActionInputs,
        data \in DataInputs :
       UpdateProposal(uid, id, action, data, FALSE) /\ Budget
  \/ \E uid \in Uids, id \in IdInputs :
       DeleteProposal(uid, id, FALSE) /\ Budget

Spec == Init /\ [][Next]_vars

\* ------------------------- requests one at a time, activity writes may fail
\* The requests explored are those that reach the proposal write.  Every
\* proposal write is followed by one logActivity call, so the writes without
\* an activity document are the failed calls; at most MaxActFails.
FailBudget ==
  /\ writes' = writes + 1
  /\ writes' <= MaxWrites
  /\ writes' - BagCardinality(activities') <= MaxActFails

NextFail ==
  \/ Deliver
  \/ \E uid \in Uids, body \in Bodies, actFail \in BOOLEAN :
       CreateProposal(uid, body, actFail) /\ FailBudget
  \/ \E uid \in Uids, id \in ProposalIds, action \in Actions,
        data \in DataInputs \ {Null}, actFail \in BOOLEAN :
       UpdateProposal(uid, id, action, data, actFail) /\ FailBudget
  \/ \E uid \in Uids, id \in ProposalIds, actFail \in BOOLEAN :
       DeleteProposal(uid, id, actFail) /\ FailBudget

SpecFail == Init /\ [][NextFail]_vars

\* ------------------------------------------------- overlapping requests
\* A PUT up to its first write.  The checks and the switch run on the
\* document read without a further await; a request they refuse is answered
\* at once and changes nothing, so only a request that passes them is a step
\* here: it waits with the document it read and the updateData it built.
UpdateRead(uid, id, action, data) ==
  /\ resp = NoResp
  /\ UNCHANGED elsewhere
  /\ UpdateEarly(id, action) = 0
  /\ LET proposal == proposals[id]
         out == UpdateSwitch(proposal, ReqUser(uid), action, data)
     IN /\ out.code = 200
        /\ inflight' = inflight (+) SetToBag(
              {[method |-> "PUT", uid |-> uid, id |-> id, action |-> action,
                proposal |-> proposal, upd |-> out.upd]})
  /\ UNCHANGED <<proposals, activities, notifications, writes, accepted, resp>>

\* The rest of a waiting PUT.
UpdateWrite(r, actFail) ==
  /\ resp = NoResp
  /\ UNCHANGED elsewhere
  /\ r.method = "PUT"
  /\ inflight' = inflight (-) SetToBag({r})
  /\ UpdateCommit(r.uid, r.id, r.action, r.proposal, r.upd, actFail)

\* A DELETE up to its write, likewise.
DeleteRead(uid, id) ==
  /\ resp = NoResp
  /\ UNCHANGED elsewhere
  /\ DeleteEarly(id) = 0
  /\ DeleteCheck(proposals[id], ReqUser(uid)) = 200
  /\ inflight' = inflight (+) SetToBag(
        {[method |-> "DELETE", uid |-> uid, id |-> id]})
  /\ UNCHANGED <<proposals, activities, notifications, writes, accepted, resp>>

\* The rest of a waiting DELETE.
DeleteWrite(r, actFail) ==
  /\ resp = NoResp
  /\ UNCHANGED elsewhere
  /\ r.method = "DELETE"
  /\ inflight' = inflight (-) SetToBag({r})
  /\ DeleteCommit(r.uid, r.id, actFail)

\* At most MaxConcProposals documents, MaxConcWrites proposal writes (those
\* of the waiting requests counted in) and MaxInflight requests between read
\* and write; the POSTs explored are those that reach the proposal write.
ConcBudget ==
  /\ writes' + BagCardinality(inflight') <= MaxConcWrites
  /\ Cardinality(DOMAIN proposals') <= MaxConcProposals
  /\ BagCardinality(inflight') <= MaxInflight

NextConc ==
  \/ Deliver
  \/ \E uid \in Uids, body \in Bodies :
       CreateProposal(uid, body, FALSE) /\ writes' = writes + 1 /\ ConcBudget
  \/ \E uid \in Uids, id \in ProposalIds, action \in Actions,
        data \in DataInputs :
       UpdateRead(uid, id, action, data) /\ ConcBudget
  \/ \E r \in BagToSet(inflight) : UpdateWrite(r, FALSE) /\ ConcBudget
  \/ \E uid \in Uids, id \in ProposalIds : DeleteRead(uid, id) /\ ConcBudget
  \/ \E r \in BagToSet(inflight) : DeleteWrite(r, FALSE) /\ ConcBudget

SpecConc == Init /\ [][NextConc]_vars

\* ------------------------------------------- the notifications endpoint
\* The addressed notifications, read or not.
Addressed(notifs) ==
  BagCardinality(notifs)
    - BagCardinality([n \in {m \in BagToSet(notifs) : "isRead" \notin DOMAIN m}
                        |-> CopiesIn(n, notifs)])

\* At most MaxNotifWrites proposal writes and MaxAddressed addressed
\* notifications; the proposal requests explored are those that reach the
\* write.
NotifBudget ==
  /\ writes' <= MaxNotifWrites
  /\ Addressed(notifications') <= MaxAddressed

NextNotif ==
  \/ Deliver
  \/ \E uid \in Uids, body \in Bodies :
       CreateProposal(uid, body, FALSE) /\ writes' = writes + 1 /\ NotifBudget
  \/ \E uid \in Uids, id \in ProposalIds, action \in Actions,
        data \in DataInputs \ {Null} :
       UpdateProposal(uid, id, action, data, FALSE) /\ writes' = writes + 1
         /\ NotifBudget
  \/ \E uid \in Uids, id \in ProposalIds :
       DeleteProposal(uid, id, FALSE) /\ writes' = writes + 1 /\ NotifBudget
  \/ \E id \in ProposalIds, address \in AddressInputs :
       Notify(id, address) /\ NotifBudget
  \/ \E uid \in Uids, hasId \in BOOLEAN, docs \in NotificationDocs :
       PutNotification(uid, hasId, docs) /\ NotifBudget

SpecNotif == Init /\ [][NextNotif]_vars

\* ------------------------------------------------- the REST-API variant
\* The handler built on firebase-rest-config: createProposal and
\* updateProposal on the same collections.
RestProposalData(user, body) ==
  [projectName |-> Trim(body.projectName),
   projectType |-> body.projectType,
   clientCompany |-> Trim(body.clientCompany),
   scopeOfWork |-> Trim(body.scopeOfWork),
   priority |-> OrElse(body.priority, "Medium"),
   status |-> "pending_estimation",
   createdBy |-> user.uid,
   createdByName |-> user.name,
   createdAt |-> Clock,
   estimation |-> Null,
   pricing |-> Null,
   directorApproval |-> Null,
   changeLog |-> <<[action |-> "created", performedBy |-> user.uid]>>]

RestCreateProposal(uid, body) ==
  LET user == ReqUser(uid) IN
  /\ resp = NoResp
  /\ UNCHANGED elsewhere
  /\ UNCHANGED <<notifications, inflight>>
  /\ IF user.role # "bdm"
     THEN /\ resp' = Response("POST", uid, NoId, NoAction, 403, {})
          /\ UNCHANGED <<proposals, activities, writes, accepted>>
     ELSE IF RequiredMissing(body)
     THEN /\ resp' = Response("POST", uid, NoId, NoAction, 400, {})
          /\ UNCHANGED <<proposals, activities, writes, accepted>>
     ELSE /\ FreshIds # {}
          /\ LET proposalId == NewId IN
             /\ proposals' = proposals @@ (proposalId :> RestProposalData(user, body))
             /\ writes' = writes + 1
             /\ accepted' = Accept(proposalId, "create")
             /\ activities' = logActivity(activities,
                   ActivityData("proposal_created", proposalId, user), FALSE)
             /\ resp' = Response("POST", uid, proposalId, NoAction, 201, {proposalId})

\* The switch: each case checks the role and nothing else.  The cases that
\* read a field of data throw without a payload; submit_to_client reads none.
RestUpdateSwitch(proposal, user, action, data) ==
  CASE action = "add_estimation" ->
         IF user.role # "estimator" THEN Reject(403)
         ELSE IF data = Null THEN Reject(500)
         ELSE Proceed([status |-> "pending_pricing",
                estimation |-> Some([totalHours |-> ParseFloatOr0(data[1].totalHours),
                                     estimatedBy |-> user.uid,
                                     estimatedByName |-> user.name])])
    [] action = "set_pricing" ->
         IF user.role # "coo" THEN Reject(403)
         ELSE IF data = Null THEN Reject(500)
         ELSE Proceed([status |-> "pending_director_approval",
                pricing |-> Some([quoteValue |-> ParseFloat(data[1].quoteValue),
                                  pricedBy |-> user.uid,
                                  pricedByName |-> user.name])])
    [] action = "director_approve" ->
         IF user.role # "director" THEN Reject(403)
         ELSE IF data = Null THEN Reject(500)
         ELSE Proceed([status |-> "approved",
                directorApproval |-> Some([approved |-> TRUE, by |-> user.uid])])
    [] action = "director_reject" ->
         IF user.role # "director" THEN Reject(403)
         ELSE IF data = Null THEN Reject(500)
         ELSE Proceed([status |-> "rejected",
                directorApproval |-> Some([approved |-> FALSE, by |-> user.uid])])
    [] action = "submit_to_client" ->
         IF user.role # "bdm" THEN Reject(403)
         ELSE Proceed([status |-> "submitted_to_client"])
    [] OTHER -> Reject(400)

RestUpdateProposal(uid, id, action, data) ==
  LET user == ReqUser(uid) IN
  /\ resp = NoResp
  /\ UNCHANGED elsewhere
  /\ UNCHANGED <<notifications, inflight>>
  /\ IF id = NoId \/ action = NoAction
     THEN /\ resp' = Response("PUT", uid, id, action, 400, {})
          /\ UNCHANGED <<proposals, activities, writes, accepted>>
     ELSE IF id \notin DOMAIN proposals
     THEN /\ resp' = Response("PUT", uid, id, action, 404, {})
          /\ UNCHANGED <<proposals, activities, writes, accepted>>
     ELSE LET proposal == proposals[id]
              out == RestUpdateSwitch(proposal, user, action, data)
          IN IF out.code # 200
             THEN /\ resp' = Response("PUT", uid, id, action, out.code, {})
                  /\ UNCHANGED <<proposals, activities, writes, accepted>>
             ELSE /\ proposals' = [proposals EXCEPT ![id] = Merge(@,
                        Merge(out.upd, [changeLog |-> Append(proposal.changeLog,
                           [action |-> action, performedBy |-> user.uid])]))]
                  /\ writes' = writes + 1
                  /\ accepted' = Accept(id, action)
                  /\ activities' = logActivity(activities,
                        ActivityData("proposal_" \o action, id, user), FALSE)
                  /\ resp' = Response("PUT", uid, id, action, 200, {id})

\* The runs explored make at most MaxRestWrites proposal writes.
RestBudget == writes' <= MaxRestWrites

NextRest ==
  \/ Deliver
  \/ \E uid \in Uids, body \in Bodies :
       RestCreateProposal(uid, body) /\ RestBudget
  \/ \E uid \in Uids, id \in IdInputs, action \in ActionInputs,
        data \in DataInputs :
       RestUpdateProposal(uid, id, action, data) /\ RestBudget

SpecRest == Init /\ [][NextRest]_vars

\* ------------------------------------------------- proposals with files
\* The POST of the first handler of proposals.js on a JSON body: any
\* authenticated user, three required fields, the creator kept in
\* createdByUid.
NewProposal(user, body) ==
  [projectName |-> Trim(body.projectName),
   clientCompany |-> Trim(body.clientCompany),
   projectType |-> OrElse(body.projectType, "Commercial"),
   scopeOfWork |-> Trim(body.scopeOfWork),
   priority |-> OrElse(body.priority, "Medium"),
   status |-> "pending_estimation",
   createdAt |-> Clock,
   createdByUid |-> user.uid,
   createdByName |-> user.name,
   createdByRole |-> user.role,
   changeLog |-> <<[action |-> "created", performedByName |-> user.name]>>]

PostProposal(uid, body) ==
  LET user == ReqUser(uid) IN
  /\ resp = NoResp
  /\ UNCHANGED <<notifications, inflight, files, rateVars>>
  /\ IF body.projectName = "" \/ body.clientCompany = "" \/ body.scopeOfWork = ""
     THEN /\ resp' = Response("POST", uid, NoId, NoAction, 400, {})
          /\ UNCHANGED <<proposals, activities, writes, accepted>>
     ELSE /\ FreshIds # {}
          /\ LET proposalId == NewId IN
             /\ proposals' = proposals @@ (proposalId :> NewProposal(user, body))
             /\ writes' = writes + 1
             /\ accepted' = Accept(proposalId, "create")
             /\ activities' = activities (+) SetToBag(
                   {[type |-> "proposal_created", proposalId |-> proposalId,
                     performedByName |-> user.name, performedByRole |-> user.role]})
             /\ resp' = Response("POST", uid, proposalId, NoAction, 201, {proposalId})

\* -------------------------------------------------------------- /api/files
FileIds == 1..MaxFiles
NoFile == 0
FileTypes == {"project", "estimation"}

\* The ids of k documents added to the collection.
FreshFileIds == FileIds \ DOMAIN files
NewFileIds(k) ==
  {i \in FreshFileIds : Cardinality({j \in FreshFileIds : j < i}) < k}

\* proposalDoc.exists && proposalDoc.data().createdByUid === uid
OwnProposal(proposalId, uid) ==
  /\ proposalId \in DOMAIN proposals
  /\ Field(proposals[proposalId], "createdByUid") = Some(uid)

\* canAccessFile as it would be without the status test on estimation files.
canAccessFileAnyStatus(file, userRole, userUid, proposalId) ==
  LET linked == IF file.proposalId # NoId THEN file.proposalId ELSE proposalId
      own == OwnProposal(linked, userUid)
      fileType == Field(file, "fileType")
  IN IF userRole = "bdm" /\ ~own THEN FALSE
     ELSE IF linked = NoId THEN userRole # "bdm"
     ELSE IF fileType \in {Null, Some("project"), Some("link")}
     THEN userRole # "bdm" \/ own
     ELSE IF fileType = Some("estimation")
     THEN IF userRole \in {"estimator", "coo", "director"} THEN TRUE
          ELSE IF userRole = "bdm" THEN own
          ELSE FALSE
     ELSE FALSE

canAccessFile(file, userRole, userUid, proposalId) ==
  LET linked == IF file.proposalId # NoId THEN file.proposalId ELSE proposalId
      own == OwnProposal(linked, userUid)
      fileType == Field(file, "fileType")
  IN IF userRole = "bdm" /\ ~own THEN FALSE
     ELSE IF linked = NoId THEN userRole # "bdm"
     ELSE IF fileType \in {Null, Some("project"), Some("link")}
     THEN userRole # "bdm" \/ own
     ELSE IF fileType = Some("estimation")
     THEN IF userRole \in {"estimator", "coo", "director"} THEN TRUE
          ELSE IF userRole = "bdm"
          THEN own /\ proposals[linked].status \in {"approved", "submitted_to_client"}
          ELSE FALSE
     ELSE FALSE

filterFilesForUser(ids, userRole, userUid) ==
  {f \in ids : canAccessFile(files[f], userRole, userUid, NoId)}

\* GET /api/files: one file by fileId, else the list, of one proposal or of
\* all.  The ids answered are those of the files given.
GetFiles(uid, proposalId, fileId) ==
  LET user == ReqUser(uid)
      Answer(code, ids) == resp' = Response("GET /files", uid, proposalId, NoAction, code, ids)
  IN
  /\ resp = NoResp
  /\ UNCHANGED <<proposals, activities, notifications, writes, inflight,
                 accepted, files, rateVars>>
  /\ IF fileId # NoFile
     THEN IF fileId \notin DOMAIN files THEN Answer(404, {})
          ELSE IF ~canAccessFile(files[fileId], user.role, uid, NoId) THEN Answer(403, {})
          ELSE Answer(200, {fileId})
     ELSE IF proposalId # NoId
     THEN IF user.role = "bdm" /\ ~OwnProposal(proposalId, uid) THEN Answer(403, {})
          ELSE Answer(200, filterFilesForUser(
                 {f \in DOMAIN files : files[f].proposalId = proposalId},
                 user.role, uid))
     ELSE IF user.role = "bdm"
     THEN LET proposalIds == {i \in DOMAIN proposals : OwnProposal(i, uid)} IN
          IF proposalIds = {} THEN Answer(200, {})
          ELSE Answer(200, filterFilesForUser(
                 {f \in DOMAIN files : files[f].proposalId \in proposalIds},
                 user.role, uid))
     ELSE Answer(200, filterFilesForUser(DOMAIN files, user.role, uid))

\* An upload and its answer: the request also tells how many files it
\* carried and which step failed on one of them, "" when none did.
UploadResponse(method, uid, proposalId, n, failed, code, ids) ==
  Merge(Response(method, uid, proposalId, NoAction, code, ids),
        [n |-> n, failed |-> failed])

\* What can go wrong on a file of the loop: the storage write (save or
\* makePublic), the metadata write, the activity write.
Stages == {"upload", "metadata", "activity"}

\* The files whose metadata the loop has written when it stops: all n, or
\* those before the file that failed, that file included when only its
\* activity write failed.
Written(n, failAt, stage) ==
  IF failAt = 0 THEN n
  ELSE IF stage = "activity" THEN failAt
  ELSE failAt - 1

\* The loop as it would be if it went on to the next file after a failure
\* and answered 201 all the same.
UploadLoopBestEffort(uid, proposalId, fileType, n, failAt, stage) ==
  LET user == ReqUser(uid)
      k == IF failAt = 0 THEN n ELSE n - 1
      ids == NewFileIds(k)
  IN /\ Cardinality(FreshFileIds) >= n
     /\ files' = files @@ [f \in ids |->
           [proposalId |-> proposalId, fileType |-> fileType,
            uploadedByUid |-> uid, uploadedByRole |-> user.role]]
     /\ activities' = activities (+) SetToBag(
           {[type |-> "file_uploaded", proposalId |-> proposalId, fileId |-> f,
             performedByUid |-> uid] : f \in ids})
     /\ resp' = UploadResponse("POST /files", uid, proposalId, n,
                               IF failAt = 0 THEN "" ELSE stage, 201, ids)

\* for (const file of req.files) { save; makePublic; files.add;
\* activities.add }, then 201; a throw ends the loop with 500.
UploadLoop(uid, proposalId, fileType, n, failAt, stage) ==
  LET user == ReqUser(uid)
      k == Written(n, failAt, stage)
      ids == NewFileIds(k)
      logged == IF failAt # 0 /\ stage = "activity" THEN NewFileIds(k - 1) ELSE ids
  IN /\ Cardinality(FreshFileIds) >= n
     /\ files' = files @@ [f \in ids |->
           [proposalId |-> proposalId, fileType |-> fileType,
            uploadedByUid |-> uid, uploadedByRole |-> user.role]]
     /\ activities' = activities (+) SetToBag(
           {[type |-> "file_uploaded", proposalId |-> proposalId, fileId |-> f,
             performedByUid |-> uid] : f \in logged})
     /\ resp' = UploadResponse("POST /files", uid, proposalId, n,
                               IF failAt = 0 THEN "" ELSE stage,
                               IF failAt = 0 THEN 201 ELSE 500, ids)

\* POST /api/files with multipart files: n files, of which file failAt (0:
\* none) fails at the given stage.
UploadFiles(uid, proposalId, fileType, n, failAt, stage) ==
  LET user == ReqUser(uid)
      Refuse(code) ==
        /\ resp' = UploadResponse("POST /files", uid, proposalId, n, "", code, {})
        /\ UNCHANGED <<files, activities>>
  IN
  /\ resp = NoResp
  /\ failAt <= n
  /\ UNCHANGED <<proposals, notifications, writes, inflight, accepted, rateVars>>
  /\ IF n = 0 THEN Refuse(400)
     ELSE IF user.role = "bdm" /\ proposalId # NoId /\ ~OwnProposal(proposalId, uid)
     THEN Refuse(403)
     ELSE IF fileType = "estimation" /\ user.role # "estimator" THEN Refuse(403)
     ELSE IF fileType = "project" /\ user.role # "bdm" THEN Refuse(403)
     ELSE UploadLoop(uid, proposalId, fileType, n, failAt, stage)

\* uploadFile of firebase-config.js: the files are uploaded side by side and
\* Promise.all waits for all of them.  done of the n files got their
\* metadata written; with done = n the proposal, if there is one, gets the
\* file references, and late tells what failed after that, if anything.
uploadFile(uid, proposalId, n, done, late) ==
  LET user == ReqUser(uid)
      ids == NewFileIds(done)
      linked == proposalId # NoId /\ proposalId \in DOMAIN proposals
      logs == linked \/ proposalId = NoId
      Answer(failed, code) ==
        resp' = UploadResponse("POST /upload", uid, proposalId, n, failed, code,
                               IF n = 0 THEN {} ELSE ids)
  IN
  /\ resp = NoResp
  /\ done <= n
  /\ UNCHANGED <<notifications, inflight, accepted, rateVars>>
  /\ IF n = 0
     THEN /\ Answer("", 400)
          /\ UNCHANGED <<proposals, activities, writes, files>>
     ELSE /\ Cardinality(FreshFileIds) >= n
          /\ files' = files @@ [f \in ids |->
                [proposalId |-> proposalId, category |-> "general",
                 uploadedBy |-> uid]]
          /\ IF done < n
             THEN /\ Answer("upload", 500)
                  /\ UNCHANGED <<proposals, activities, writes>>
             ELSE IF late = "update" /\ linked
             THEN /\ Answer("update", 500)
                  /\ UNCHANGED <<proposals, activities, writes>>
             ELSE /\ IF linked
                     THEN /\ proposals' = [proposals EXCEPT ![proposalId] =
                                Merge(@, [files |-> OrEmpty(Field(@, "files")) \cup ids])]
                          /\ writes' = writes + 1
                     ELSE UNCHANGED <<proposals, writes>>
                  /\ IF late = "activity" /\ logs
                     THEN /\ Answer("activity", 500)
                          /\ UNCHANGED activities
                     ELSE /\ Answer("", 201)
                          /\ activities' =
                               IF logs
                               THEN activities (+) SetToBag(
                                      {[type |-> "file_uploaded", proposalId |-> proposalId,
                                        fileId |-> f, performedBy |-> uid] : f \in ids})
                               ELSE activities

\* At most MaxFileProposals proposals, MaxFileWrites proposal writes and
\* MaxFiles file documents; the proposal requests explored are those that
\* reach the write.
FilesBudget ==
  /\ writes' <= MaxFileWrites
  /\ Cardinality(DOMAIN proposals') <= MaxFileProposals

\* The requests explored: proposals made from one body by either bdm, uploads
\* by a bdm and an estimator, reads by a bdm and an estimator, for no
\* proposal or one of the first MaxFileProposals.
FileBodies == {body \in Bodies : body.projectName = "X"}
Creators == {"b1", "b2"}
Uploaders == {"b1", "e1"}
Readers == {"b1", "e1"}
LinkInputs == {NoId} \cup 1..MaxFileProposals

\* Reading files: proposals move along the workflow, files are uploaded
\* without failures and read.
NextFiles ==
  \/ Deliver
  \/ \E uid \in Creators, body \in FileBodies :
       PostProposal(uid, body) /\ writes' = writes + 1 /\ FilesBudget
  \/ \E uid \in Uids, id \in ProposalIds, action \in Actions,
        data \in DataInputs \ {Null} :
       UpdateProposal(uid, id, action, data, FALSE) /\ writes' = writes + 1
         /\ FilesBudget
  \/ \E uid \in Uploaders, proposalId \in LinkInputs, fileType \in FileTypes,
        n \in 1..MaxFiles :
       UploadFiles(uid, proposalId, fileType, n, 0, "upload") /\ resp'.code = 201
  \/ \E uid \in Readers, proposalId \in LinkInputs, fileId \in FileIds \cup {NoFile} :
       (proposalId = NoId \/ fileId = NoFile) /\ GetFiles(uid, proposalId, fileId)

SpecFiles == Init /\ [][NextFiles]_vars

\* Uploading files, with failures, by either endpoint, for the proposals of
\* one bdm.
NextUpload ==
  \/ Deliver
  \/ \E body \in FileBodies :
       PostProposal("b1", body) /\ writes' = writes + 1 /\ FilesBudget
  \/ \E uid \in Uploaders, proposalId \in LinkInputs, fileType \in FileTypes,
        n \in 0..MaxFiles, failAt \in 0..MaxFiles, stage \in Stages :
       UploadFiles(uid, proposalId, fileType, n, failAt, stage)
  \/ \E proposalId \in LinkInputs, n \in 0..MaxFiles,
        done \in 0..MaxFiles, late \in {"", "update", "activity"} :
       uploadFile("e1", proposalId, n, done, late) /\ FilesBudget

SpecUpload == Init /\ [][NextUpload]_vars

\* Writing proposals: the workflow, the soft delete and the uploads of an
\* estimator that reach their answer, on the proposals of one bdm.
NextFrame ==
  \/ Deliver
  \/ \E body \in FileBodies :
       PostProposal("b1", body) /\ writes' = writes + 1 /\ FilesBudget
  \/ \E uid \in Uids, id \in ProposalIds, action \in Actions,
        data \in DataInputs \ {Null} :
       UpdateProposal(uid, id, action, data, FALSE) /\ writes' = writes + 1
         /\ FilesBudget
  \/ \E uid \in Uids, id \in ProposalIds :
       DeleteProposal(uid, id, FALSE) /\ writes' = writes + 1 /\ FilesBudget
  \/ \E proposalId \in LinkInputs \ {NoId}, n \in 1..MaxFiles :
       UploadFiles("e1", proposalId, "estimation", n, 0, "upload")
         /\ resp'.code = 201
  \/ \E proposalId \in LinkInputs \ {NoId}, n \in 1..MaxFiles :
       uploadFile("e1", proposalId, n, n, "") /\ resp'.code = 201 /\ FilesBudget

SpecFrame == Init /\ [][NextFrame]_vars

\* -------------------------------------------------------------- rateLimit
\* The users whose requests reach the middleware; NoUser is a request on
\* which req.user is not set.
RateUsers == {"b1", "e1"}
NoUser == ""

\* A Map's entry, [] where the key is absent.
Kept(map, userId) == IF userId \in DOMAIN map THEN map[userId] ELSE <<>>

\* userRequests.filter(timestamp => timestamp > windowStart)
RecentRequests(userRequests, windowStart) ==
  SelectSeq(userRequests, LAMBDA timestamp : timestamp > windowStart)

\* The limit test as it would be if it let the request past the last one
\* allowed through.
LimitedOffByOne(recentRequests, maxRequests) == Len(recentRequests) > maxRequests

\* recentRequests.length >= maxRequests
Limited(recentRequests, maxRequests) == Len(recentRequests) >= maxRequests

\* The middleware on one request: next() or 429.
RateLimit(uid) ==
  /\ UNCHANGED <<proposals, activities, notifications, writes, inflight,
                 accepted, resp, files, limiter, now>>
  /\ IF uid = NoUser
     THEN /\ verdict' = [n |-> verdict.n + 1, uid |-> uid, next |-> TRUE]
          /\ UNCHANGED <<requests, passed>>
     ELSE LET userId == uid
              windowStart == now - limiter.windowMs
              userRequests == Kept(requests, userId)
              recentRequests == RecentRequests(userRequests, windowStart)
          IN IF Limited(recentRequests, limiter.maxRequests)
             THEN /\ requests' = (userId :> userRequests) @@ requests
                  /\ verdict' = [n |-> verdict.n + 1, uid |-> uid, next |-> FALSE]
                  /\ UNCHANGED passed
             ELSE /\ requests' = (userId :> Append(recentRequests, now)) @@ requests
                  /\ passed' = (userId :> Append(Kept(passed, userId), now)) @@ passed
                  /\ verdict' = [n |-> verdict.n + 1, uid |-> uid, next |-> TRUE]

\* Date.now() moves on.
Tick ==
  /\ now < MaxNow
  /\ now' = now + 1
  /\ UNCHANGED <<proposals, activities, notifications, writes, inflight,
                 accepted, resp, files, limiter, requests, passed, verdict>>

\* A middleware built with any of the arguments explored.
InitRate ==
  /\ proposals = <<>>
  /\ activities = EmptyBag
  /\ notifications = EmptyBag
  /\ writes = 0
  /\ inflight = EmptyBag
  /\ accepted = <<>>
  /\ resp = NoResp
  /\ files = <<>>
  /\ limiter \in [maxRequests : 0..MaxRequestsArg, windowMs : 0..MaxWindowMs]
  /\ requests = <<>>
  /\ now = 0
  /\ passed = <<>>
  /\ verdict = NoVerdict

NextRate ==
  \/ Tick
  \/ \E uid \in RateUsers \cup {NoUser} :
       RateLimit(uid) /\ verdict'.n <= MaxServed

SpecRate == InitRate /\ [][NextRate]_vars

\* ================================================================== claims
\* The transition table the claims refer to: the role an action is reserved
\* to and the status it is to start from.
PermittedRole(action) ==
  CASE action = "add_estimation" -> "estimator"
    [] action = "set_pricing" -> "coo"
    [] action = "director_approve" -> "director"
    [] action = "director_reject" -> "director"
    [] action = "submit_to_client" -> "bdm"

RequiredStatus(action) ==
  CASE action = "add_estimation" -> "pending_estimation"
    [] action = "set_pricing" -> "pending_pricing"
    [] action = "director_approve" -> "pending_director_approval"
    [] action = "director_reject" -> "pending_director_approval"
    [] action = "submit_to_client" -> "approved"

\* The step answers a request of the given method (resp' is that answer).
Answers(method) == resp'.method = method
Stored(id) == id \in DOMAIN proposals
ChangeLogOf(ps, id) == IF id \in DOMAIN ps THEN ps[id].changeLog ELSE <<>>
WorkflowFields(doc) ==
  <<doc.status, doc.estimation, doc.pricing, doc.directorApproval, doc.changeLog>>

\* C1: a PUT of one of the five actions by the role the action is reserved
\* to, on a stored proposal whose status is not the one the transition table
\* requires, is refused and leaves status, estimation, pricing,
\* directorApproval and changeLog of the proposal as they were.
C1_WrongStatusRefused ==
  [][ ( /\ Answers("PUT")
        /\ resp'.action \in Actions
        /\ Stored(resp'.id)
        /\ users[resp'.actor].role = PermittedRole(resp'.action)
        /\ proposals[resp'.id].status # RequiredStatus(resp'.action) )
      => ( /\ resp'.code # 200
           /\ WorkflowFields(proposals'[resp'.id]) = WorkflowFields(proposals[resp'.id]) )
    ]_vars

\* C2: a PUT of one of the five actions by an actor whose role is not the
\* one the action is reserved to is answered 403, a PUT for an id that is
\* not stored is answered 404, and either leaves the proposals, activities
\* and notifications collections as they were.
C2_RefusedNoWrite ==
  [][ ( /\ Answers("PUT")
        /\ resp'.id # NoId
        /\ resp'.action # NoAction
        /\ \/ ~Stored(resp'.id)
           \/ /\ resp'.action \in Actions
              /\ users[resp'.actor].role # PermittedRole(resp'.action) )
      => ( /\ resp'.code = IF Stored(resp'.id) THEN 403 ELSE 404
           /\ proposals' = proposals
           /\ activities' = activities
           /\ notifications' = notifications )
    ]_vars

\* A PUT of a known action on a stored proposal was just refused for the role.
C2_Witness ==
  /\ resp.method = "PUT"
  /\ resp.code = 403
  /\ resp.action \in Actions
  /\ resp.id \in DOMAIN proposals
  /\ proposals[resp.id].status = RequiredStatus(resp.action)

\* C3: in every step, overlapping requests included, the changeLog of every
\* stored proposal keeps its entries and its order: the old log is a prefix
\* of the new one.
C3_ChangeLogAppendOnly ==
  [][ \A id \in DOMAIN proposals :
        LET old == proposals[id].changeLog
            new == proposals'[id].changeLog
        IN /\ Len(new) >= Len(old)
           /\ SubSeq(new, 1, Len(old)) = old
    ]_vars

\* C4: with requests handled one at a time, every accepted POST, PUT and
\* DELETE makes the changeLog of its proposal exactly one entry longer.
C4_OneLogEntryPerTransition ==
  [][ ( /\ resp'.method \in {"POST", "PUT", "DELETE"}
        /\ resp'.code \in {200, 201} )
      => Len(ChangeLogOf(proposals', resp'.id))
           = Len(ChangeLogOf(proposals, resp'.id)) + 1
    ]_vars

\* C5: when no activity write fails, every accepted POST, PUT and DELETE adds
\* exactly one activity document, which carries the actor's uid and name and
\* the proposal id, and every refused request adds none.
C5_OneActivityPerTransition ==
  [][ resp'.method \in {"POST", "PUT", "DELETE"} =>
        IF resp'.code \in {200, 201}
        THEN \E a \in BagToSet(activities') :
               /\ activities' = activities (+) SetToBag({a})
               /\ a.performedBy = resp'.actor
               /\ a.performedByName = users[resp'.actor].name
               /\ a.proposalId = resp'.id
        ELSE activities' = activities
    ]_vars

\* An accepted DELETE has left its activity document.
C5_Witness ==
  /\ resp.method = "DELETE"
  /\ resp.code = 200
  /\ \E a \in BagToSet(activities) :
       a.type = "proposal_deleted" /\ a.proposalId = resp.id

\* C6: in every reachable state the status of every stored proposal is one
\* of the values of the state enum.
C6_StatusInEnum ==
  \A id \in DOMAIN proposals : proposals[id].status \in StatusEnum

\* C7: for every stored proposal, estimation is set exactly if an
\* add_estimation on it was accepted, pricing exactly if a set_pricing was,
\* and directorApproval exactly if a director_approve or director_reject was.
C7_SubRecordsIffAccepted ==
  \A id \in DOMAIN proposals :
    /\ proposals[id].estimation # Null <=> "add_estimation" \in accepted[id]
    /\ proposals[id].pricing # Null <=> "set_pricing" \in accepted[id]
    /\ proposals[id].directorApproval # Null <=>
         accepted[id] \cap {"director_approve", "director_reject"} # {}

\* A proposal that was estimated, priced and then rejected.
C7_Witness ==
  \E id \in DOMAIN proposals :
    /\ {"add_estimation", "set_pricing", "director_reject"} \subseteq accepted[id]
    /\ "director_approve" \notin accepted[id]
    /\ proposals[id].directorApproval # Null

\* C8: a GET by a bdm never carries a proposal created by someone else, and
\* a GET by id of a stored proposal created by someone else is answered 403.
C8_BdmReadsOwnOnly ==
  ( resp.method = "GET" /\ users[resp.actor].role = "bdm" ) =>
    /\ \A i \in resp.ids : proposals[i].createdBy = resp.actor
    /\ ( Stored(resp.id) /\ proposals[resp.id].createdBy # resp.actor )
         => ( resp.code = 403 /\ resp.ids = {} )

\* A bdm asked by id for a proposal of another bdm, and a bdm listed while a
\* proposal of another bdm is stored.
C8_Witness ==
  /\ resp.method = "GET"
  /\ users[resp.actor].role = "bdm"
  /\ resp.id \in DOMAIN proposals
  /\ proposals[resp.id].createdBy # resp.actor
  /\ resp.code = 403

\* C9: a PUT by a bdm on a stored proposal that another user created is
\* refused and changes nothing.
C9_BdmMutatesOwnOnly ==
  [][ ( /\ Answers("PUT")
        /\ users[resp'.actor].role = "bdm"
        /\ Stored(resp'.id)
        /\ proposals[resp'.id].createdBy # resp'.actor )
      => ( resp'.code # 200 /\ proposals' = proposals )
    ]_vars

\* C10 as stated: the list a GET without id gives an estimator, a coo or a
\* director holds every stored proposal.
C10_AllRolesSeeAll ==
  ( /\ resp.method = "GET"
    /\ resp.id = NoId
    /\ users[resp.actor].role \in {"estimator", "coo", "director"} )
  => resp.ids = DOMAIN proposals

\* C10 amended: that list holds every stored proposal for a director, exactly
\* the proposals in pending_estimation for an estimator and exactly the
\* proposals in pending_pricing for a coo.
C10_RoleScopedList ==
  ( resp.method = "GET" /\ resp.id = NoId ) =>
    LET role == users[resp.actor].role IN
    /\ role = "director" => resp.ids = DOMAIN proposals
    /\ role = "estimator" => resp.ids =
         {i \in DOMAIN proposals : proposals[i].status = "pending_estimation"}
    /\ role = "coo" => resp.ids =
         {i \in DOMAIN proposals : proposals[i].status = "pending_pricing"}

\* A coo listed while one proposal was in pending_pricing and another one,
\* which the list leaves out, was past it.
C10_Witness ==
  /\ resp.method = "GET"
  /\ resp.id = NoId
  /\ users[resp.actor].role = "coo"
  /\ resp.ids # {}
  /\ \E i \in DOMAIN proposals :
       i \notin resp.ids /\ proposals[i].status = "pending_director_approval"

\* The notification documents a step adds to the collection.
NewNotifications ==
  {n \in BagToSet(notifications') :
     CopiesIn(n, notifications') > CopiesIn(n, notifications)}

C12_RejectNotifies ==
  [][ ( /\ Answers("PUT")
        /\ resp'.action = "director_reject"
        /\ resp'.code = 200
        /\ proposals[resp'.id].status = "pending_director_approval" )
      => \E n \in NewNotifications : n.proposalId = resp'.id
    ]_vars

\* C13: after a director_reject answered 200 on a proposal in
\* pending_director_approval the status of the proposal is revision_required
\* or pending_pricing and directorApproval.approved is false.
C13_RejectStatus ==
  [][ ( /\ Answers("PUT")
        /\ resp'.action = "director_reject"
        /\ resp'.code = 200
        /\ proposals[resp'.id].status = "pending_director_approval" )
      => ( /\ proposals'[resp'.id].status \in {"revision_required", "pending_pricing"}
           /\ proposals'[resp'.id].directorApproval # Null
           /\ proposals'[resp'.id].directorApproval[1].approved = FALSE )
    ]_vars

C15_DeletedNotFound ==
  ( /\ resp.method = "GET"
    /\ resp.id \in DOMAIN accepted
    /\ "delete" \in accepted[resp.id] )
  => resp.code = 404

\* C16: the write of every waiting PUT is answered 200, whatever was written
\* to the proposal since the request read it, and leaves in the stored
\* proposal the status that request computed: of two overlapping requests the
\* status stored at the end is that of the later write.
C16_LastWriterWins ==
  [][ \A r \in BagToSet(inflight) :
        ( r.method = "PUT" /\ UpdateWrite(r, FALSE) )
        => ( /\ resp'.code = 200
             /\ proposals'[r.id].status = r.upd.status
             /\ r.action \in accepted'[r.id] )
    ]_vars

\* A director_approve and a director_reject both read the proposal in
\* pending_director_approval (version 3), the approval was written first and
\* the rejection second: both were accepted and the status is 'rejected'.
C16_Witness ==
  /\ resp.method = "PUT"
  /\ resp.action = "director_reject"
  /\ resp.code = 200
  /\ {"director_approve", "director_reject"} \subseteq accepted[resp.id]
  /\ proposals[resp.id].status = "rejected"
  /\ proposals[resp.id].version = 4
  /\ Len(proposals[resp.id].changeLog) = 4
  /\ proposals[resp.id].changeLog[3].action = "pricing_set"

\* The sub-record an action writes.
SubRecord(doc, action) ==
  CASE action = "add_estimation" -> doc.estimation
    [] action = "set_pricing" -> doc.pricing
    [] action = "director_approve" -> doc.directorApproval
    [] action = "director_reject" -> doc.directorApproval
    [] action = "submit_to_client" -> doc.clientSubmission

\* C17: when the activity write of a PUT fails after the proposal update was
\* written, the stored proposal holds every field of the update: the new
\* status, the sub-record of the action and a changeLog one entry longer.
C17_NoRollback ==
  [][ \A data \in DataInputs :
        LET uid == resp'.actor
            id == resp'.id
            action == resp'.action
        IN
        ( /\ Answers("PUT")
          /\ writes' = writes + 1
          /\ UpdateProposal(uid, id, action, data, TRUE) )
        => LET upd == UpdateSwitch(proposals[id], ReqUser(uid), action, data).upd
           IN /\ activities' = activities
              /\ \A f \in DOMAIN upd : proposals'[id][f] = upd[f]
              /\ proposals'[id].status = upd.status
              /\ SubRecord(proposals'[id], action) # Null
              /\ Len(proposals'[id].changeLog) = Len(proposals[id].changeLog) + 1
    ]_vars

\* The activity write of an add_estimation failed (no activity document of
\* it exists) and the proposal is in pending_pricing with its estimation.
C17_Witness ==
  /\ resp.method = "PUT"
  /\ resp.action = "add_estimation"
  /\ resp.code = 500
  /\ proposals[resp.id].status = "pending_pricing"
  /\ proposals[resp.id].estimation # Null
  /\ Len(proposals[resp.id].changeLog) = 2
  /\ \A a \in BagToSet(activities) :
       ~(a.type = "proposal_add_estimation" /\ a.proposalId = resp.id)

\* C18: when the activity write of a PUT fails after the proposal update was
\* written, the request is answered 200 and, if the update changed the
\* status to one the notification table knows, a notification for the
\* proposal is added.
C18_LogFailureSwallowed ==
  [][ \A data \in DataInputs :
        LET uid == resp'.actor
            id == resp'.id
            action == resp'.action
        IN
        ( /\ Answers("PUT")
          /\ writes' = writes + 1
          /\ UpdateProposal(uid, id, action, data, TRUE) )
        => /\ resp'.code = 200
           /\ ( /\ proposals'[id].status # proposals[id].status
                /\ proposals'[id].status \in NotifiedStatuses )
              => \E n \in NewNotifications : n.proposalId = id
    ]_vars

\* C19: every PUT that is refused (not answered 200) while one of the checks
\* fails carries the code of the first failing check, in this order: id or
\* action missing, 400; id not stored, 404; action not one of the five, 400;
\* role not the one the action is reserved to, 403; status not the one the
\* action starts from, 400.
C19_FirstFailingCheck ==
  [][ ( Answers("PUT") /\ resp'.code # 200 ) =>
        LET id == resp'.id
            action == resp'.action
        IN IF id = NoId \/ action = NoAction THEN resp'.code = 400
           ELSE IF ~Stored(id) THEN resp'.code = 404
           ELSE IF action \notin Actions THEN resp'.code = 400
           ELSE IF users[resp'.actor].role # PermittedRole(action)
                THEN resp'.code = 403
           ELSE IF proposals[id].status # RequiredStatus(action)
                THEN resp'.code = 400
           ELSE TRUE
    ]_vars

\* The actor a notification is addressed to: a bdm by recipientUid, an actor
\* of any other role by recipientRole.
IsAddressedTo(n, uid) ==
  IF users[uid].role = "bdm"
  THEN Field(n, "recipientUid") = Some(uid)
  ELSE Field(n, "recipientRole") = Some(users[uid].role)

\* C20: in every step, a notification document that does not stay as it was
\* had isRead false and is replaced by itself with isRead true, in a step
\* that answers 200 to a PUT /notifications of an actor it is addressed to;
\* a PUT /notifications that is refused, and in particular one by an actor
\* the document is not addressed to (answered 403), leaves the collection as
\* it was.  So no step takes a document with isRead true away or back to
\* false.
C20_ReadOnce ==
  [][ /\ \A n \in BagToSet(notifications) :
           CopiesIn(n, notifications') < CopiesIn(n, notifications)
           => /\ resp'.method = "PUT /notifications"
              /\ resp'.code = 200
              /\ IsAddressedTo(n, resp'.actor)
              /\ Field(n, "isRead") = Some(FALSE)
              /\ notifications' = (notifications (-) SetToBag({n}))
                   (+) SetToBag({[n EXCEPT !.isRead = TRUE]})
      /\ ( resp'.method = "PUT /notifications" /\ resp'.code # 200 )
           => notifications' = notifications
      /\ \A n \in BagToSet(notifications) :
           ( /\ resp'.method = "PUT /notifications"
             /\ ~IsAddressedTo(n, resp'.actor)
             /\ PutNotification(resp'.actor, TRUE, {n}) )
           => ( resp'.code = 403 /\ notifications' = notifications )
    ]_vars

\* A PUT /notifications was just answered 200 and a notification addressed
\* to its actor is read, while another notification is still unread.
C20_Witness ==
  /\ resp.method = "PUT /notifications"
  /\ resp.code = 200
  /\ \E n \in BagToSet(notifications) :
       Field(n, "isRead") = Some(TRUE) /\ IsAddressedTo(n, resp.actor)
  /\ \E n \in BagToSet(notifications) : Field(n, "isRead") = Some(FALSE)

\* The chain of the state enum: the statuses that follow a status.
ChainSuccessors(status) ==
  CASE status = "pending_estimation" -> {"pending_pricing"}
    [] status = "pending_pricing" -> {"pending_director_approval"}
    [] status = "pending_director_approval" ->
         {"approved", "rejected", "revision_required"}
    [] status = "approved" -> {"submitted_to_client"}
    [] status = "submitted_to_client" -> {"won", "lost"}
    [] OTHER -> {}

\* Some PUT on the proposal is accepted and leaves it in the status.
TakesTo(id, status) ==
  \E uid \in Uids, action \in ActionInputs, data \in DataInputs :
    /\ UpdateProposal(uid, id, action, data, FALSE)
    /\ resp'.code = 200
    /\ proposals'[id].status = status

\* C23: every status of the enum is reached along the chain from create: a
\* created proposal is in pending_estimation, and whenever a stored proposal
\* is in a status of the chain and no answer is pending, for every status
\* that follows it in the chain there is a PUT that is accepted and leaves
\* the proposal in that status.
C23_ChainReachable ==
  \A id \in DOMAIN proposals :
    resp = NoResp =>
      \A status \in ChainSuccessors(proposals[id].status) :
        ENABLED TakesTo(id, status)

\* C23, the other way round: in every reachable state no stored proposal has
\* the status revision_required, won or lost.
C23_NeverStored ==
  \A id \in DOMAIN proposals :
    proposals[id].status \notin {"revision_required", "won", "lost"}

\* C26: in every reachable state, overlapping requests included, a proposal
\* in pending_pricing has an estimation, and a proposal in
\* pending_director_approval, approved or submitted_to_client has an
\* estimation and a pricing.
C26_StatusImpliesSubRecords ==
  \A id \in DOMAIN proposals :
    /\ proposals[id].status = "pending_pricing"
         => proposals[id].estimation # Null
    /\ proposals[id].status \in
         {"pending_director_approval", "approved", "submitted_to_client"}
         => ( proposals[id].estimation # Null /\ proposals[id].pricing # Null )

\* A set_pricing and a director_reject both read the proposal in
\* pending_pricing; the rejection was written first, the pricing second.
C26_Witness ==
  \E id \in DOMAIN proposals :
    /\ proposals[id].status = "pending_director_approval"
    /\ "director_reject" \in accepted[id]
    /\ proposals[id].directorApproval # Null
    /\ proposals[id].estimation # Null
    /\ proposals[id].pricing # Null

\* C27: in every reachable state, overlapping requests included, a proposal
\* in submitted_to_client has directorApproval.approved true.
C27_SubmittedImpliesApproved ==
  \A id \in DOMAIN proposals :
    proposals[id].status = "submitted_to_client"
      => ( /\ proposals[id].directorApproval # Null
           /\ proposals[id].directorApproval[1].approved = TRUE )

\* C28: a proposal whose status is deleted keeps that status in every step.
C28_DeletedStaysDeleted ==
  [][ \A id \in DOMAIN proposals :
        proposals[id].status = "deleted" => proposals'[id].status = "deleted"
    ]_vars

\* C29: in every reachable state, overlapping requests included, the version
\* of every stored proposal equals the length of its changeLog.
C29_VersionIsLogLength ==
  \A id \in DOMAIN proposals :
    proposals[id].version = Len(proposals[id].changeLog)

\* An add_estimation and a director_reject both read the proposal at version
\* 1 and both were written: version 2, two changeLog entries.
C29_Witness ==
  \E id \in DOMAIN proposals :
    /\ {"add_estimation", "director_reject"} \subseteq accepted[id]
    /\ proposals[id].version = 2
    /\ Len(proposals[id].changeLog) = 2

\* C25: in the REST-API variant a set_pricing, director_approve or
\* submit_to_client is answered 200 only on a proposal in the status the
\* transition table requires, and so a proposal that is approved or
\* submitted_to_client had an add_estimation and a set_pricing accepted.
C25_RestPreconditions ==
  [][ ( /\ Answers("PUT")
        /\ resp'.code = 200
        /\ resp'.action \in {"set_pricing", "director_approve", "submit_to_client"} )
      => ( /\ proposals[resp'.id].status = RequiredStatus(resp'.action)
           /\ proposals'[resp'.id].status \in {"approved", "submitted_to_client"}
                => {"add_estimation", "set_pricing"} \subseteq accepted'[resp'.id] )
    ]_vars

\* The requests of user u let through with a timestamp in (t - windowMs, t].
LetThrough(map, u, t) ==
  Cardinality({i \in DOMAIN Kept(map, u) :
                 /\ Kept(map, u)[i] > t - limiter.windowMs
                 /\ Kept(map, u)[i] <= t})

\* C30: with a clock that never goes back, the requests of a user that
\* rateLimit(maxRequests, windowMs) lets through with a timestamp in any
\* interval (t - windowMs, t] are at most maxRequests; a request refused with
\* 429 is not recorded and takes no quota; a request of one user changes
\* nothing kept for another user, and a user is refused only when that user's
\* own requests let through in the window have reached maxRequests.
C30_RateLimit ==
  [][ /\ \A u \in RateUsers, t \in 0..MaxNow :
           LetThrough(passed', u, t) <= limiter.maxRequests
      /\ verdict'.n # verdict.n =>
           LET u == verdict'.uid IN
           /\ ~verdict'.next =>
                /\ Kept(requests', u) = Kept(requests, u)
                /\ passed' = passed
                /\ LetThrough(passed, u, now) >= limiter.maxRequests
           /\ \A v \in RateUsers \ {u} :
                /\ Kept(requests', v) = Kept(requests, v)
                /\ Kept(passed', v) = Kept(passed, v) ]_vars

\* A user with two requests in the window is refused while another user has
\* a request in the same window and an older request of the refused user has
\* left the window.
C30_Witness ==
  /\ verdict.n > 0 /\ ~verdict.next
  /\ limiter.maxRequests = 2 /\ limiter.windowMs > 0
  /\ LetThrough(passed, verdict.uid, now) = 2
  /\ Len(Kept(passed, verdict.uid)) > 2
  /\ \E v \in RateUsers \ {verdict.uid} : LetThrough(passed, v, now) >= 1

\* The creator a proposal document names, in createdByUid or in createdBy.
CreatorOf(doc) ==
  IF "createdByUid" \in DOMAIN doc THEN Field(doc, "createdByUid")
  ELSE Field(doc, "createdBy")

\* C21: every file a GET /files gives to a bdm, in the list or by fileId,
\* belongs to a stored proposal created by that bdm, and if it is an
\* estimation file the proposal's status is approved or submitted_to_client;
\* so a bdm is given no file of somebody else's proposal or of no proposal.
C21_BdmFiles ==
  ( /\ resp.method = "GET /files" /\ resp.code = 200
    /\ ReqUser(resp.actor).role = "bdm" ) =>
    \A f \in resp.ids :
      LET file == files[f] IN
      /\ file.proposalId \in DOMAIN proposals
      /\ CreatorOf(proposals[file.proposalId]) = Some(resp.actor)
      /\ Field(file, "fileType") = Some("estimation") =>
           proposals[file.proposalId].status \in {"approved", "submitted_to_client"}

\* The bdm who created an approved proposal is given its estimation file,
\* uploaded by the estimator.
C21_Witness ==
  /\ resp.method = "GET /files" /\ resp.code = 200
  /\ ReqUser(resp.actor).role = "bdm"
  /\ \E f \in resp.ids :
       /\ Field(files[f], "fileType") = Some("estimation")
       /\ files[f].uploadedByUid = "e1"
       /\ proposals[files[f].proposalId].status = "approved"

\* C22: an upload of n files is answered 201 only when no file of it failed
\* and the files collection has n new documents, those the answer lists; an
\* upload with a file whose storage write or metadata write failed is not
\* answered 201.  For the loop of /api/files and for uploadFile alike.
C22_AllWrittenBefore201 ==
  [][ ( resp = NoResp /\ resp'.method \in {"POST /files", "POST /upload"} ) =>
        /\ resp'.code = 201 =>
             /\ resp'.failed = ""
             /\ Cardinality(DOMAIN files' \ DOMAIN files) = resp'.n
             /\ resp'.ids = DOMAIN files' \ DOMAIN files
             /\ \A f \in resp'.ids : files'[f].proposalId = resp'.id
        /\ resp'.failed \in {"upload", "metadata"} => resp'.code # 201 ]_vars

\* An upload of two files was answered 201 and both documents are there.
C22_Witness ==
  /\ resp.method = "POST /files" /\ resp.code = 201
  /\ Cardinality(resp.ids) = 2
  /\ resp.ids \subseteq DOMAIN files

\* The fields fixed when a proposal is created.
Immutable(doc) ==
  <<doc.projectName, doc.clientCompany, doc.projectType, doc.scopeOfWork,
    doc.priority, CreatorOf(doc), doc.createdByName, doc.createdAt>>

\* C24: no step, and so no accepted updateProposal action, delete or file
\* upload, changes projectName, clientCompany, projectType, scopeOfWork,
\* priority, the creator's uid, createdByName or createdAt of a stored
\* proposal.
C24_ImmutableOnCreate ==
  [][ \A id \in DOMAIN proposals :
        /\ id \in DOMAIN proposals'
        /\ Immutable(proposals'[id]) = Immutable(proposals[id]) ]_vars

\* A proposal that was estimated, got file references from an upload and was
\* deleted still has the fields it was created with.
C24_Witness ==
  \E id \in DOMAIN proposals :
    /\ proposals[id].status = "deleted"
    /\ "estimation" \in DOMAIN proposals[id]
    /\ Field(proposals[id], "files") # Null
    /\ Field(proposals[id], "files") # Some({})
    /\ Immutable(proposals[id]) =
         <<"X", "Y", "Commercial", "Z", "Medium", Some("b1"), "Bea", 0>>

====
